---- MODULE Spec2Model ----
(***************************************************************************)
(* The chat session of frontend/src/App.jsx: the React state of App        *)
(* (messages, input, loading), the handlers sendMessage, handleKeyDown     *)
(* and the input's onChange, and the continuation of sendMessage after     *)
(* its two awaits (fetch, res.json).                                       *)
(*                                                                         *)
(* Text is a sequence of one-character strings, so that trim is computed.  *)
(* A DOM event handler runs to its first await and React renders its       *)
(* state updates before the next event (discrete events are flushed        *)
(* synchronously), so an event is one step.  The updates made after an     *)
(* await (the bot message, then loading = false) are made in one turn of   *)
(* the event loop and rendered together; an event handled before that      *)
(* render sees loading = true and an unchanged transcript, exactly as one  *)
(* handled before the settlement, so a settlement and its render are one   *)
(* step too.                                                               *)
(***************************************************************************)
EXTENDS Naturals, Sequences, FiniteSets, TLC

(* ------------------------------ bounds ------------------------------ *)
MaxInputLen == 2
MaxSubmits == 2

Alphabet == {"a", " "}
Keys == {"Enter", "a", "Escape"}

(* ------------------------------- text ------------------------------- *)
(* The greeting of line 8; its typographic apostrophe is written ' here. *)
GreetingText == <<"H", "i", "!", " ", "I", "'", "m", " ", "J", "a", "r", "v", "i", "s", ".", " ", "A", "s", "k", " ", "m", "e", " ", "s", "o", "m", "e", "t", "h", "i", "n", "g", " ", "f", "r", "o", "m", " ", "t", "h", "e", " ", "k", "n", "o", "w", "l", "e", "d", "g", "e", " ", "b", "a", "s", "e", ".">>
NoResponse == <<"N", "o", " ", "r", "e", "s", "p", "o", "n", "s", "e">>
ErrorText == <<"E", "r", "r", "o", "r", ":", " ", "C", "o", "u", "l", "d", " ", "n", "o", "t", " ", "r", "e", "a", "c", "h", " ", "b", "a", "c", "k", "e", "n", "d", ".", " ", "I", "s", " ", "i", "t", " ", "r", "u", "n", "n", "i", "n", "g", " ", "o", "n", " ", "p", "o", "r", "t", " ", "8", "0", "0", "0", "?">>
Paris == <<"P", "a", "r", "i", "s">>
Doc1 == <<"d", "o", "c", "1">>

Texts == UNION {[1..n -> Alphabet] : n \in 0..MaxInputLen}

(* String.prototype.trim: strips white space at both ends, keeps it inside. *)
WhiteSpace == {" ", "\t", "\n", "\r"}

RECURSIVE TrimStart(_)
TrimStart(s) ==
  IF s # <<>> /\ Head(s) \in WhiteSpace THEN TrimStart(Tail(s)) ELSE s

RECURSIVE TrimEnd(_)
TrimEnd(s) ==
  IF s # <<>> /\ s[Len(s)] \in WhiteSpace
    THEN TrimEnd(SubSeq(s, 1, Len(s) - 1))
    ELSE s

(* Variant: the text is taken as typed. *)
TrimNothing(s) == s

Trim(s) == TrimEnd(TrimStart(s))

(* ----------------------------- messages ----------------------------- *)
Greeting == [role |-> "bot", text |-> GreetingText]

(* Variant: the user message is given an empty sources array. *)
UserMessageWithSources(msg) == [role |-> "user", text |-> msg, sources |-> <<>>]

UserMessage(msg) == [role |-> "user", text |-> msg]

(* Variant: the error message appended with the role of line 17. *)
ErrorMessageAsUser == [role |-> "user", text |-> ErrorText]

ErrorMessage == [role |-> "bot", text |-> ErrorText]

(* Decoded bodies the answering service may send: objects in which answer *)
(* is absent, empty or a text, and sources absent, empty or one citation.  *)
Citation == [source |-> Doc1, chunk_id |-> 3]
Responses ==
  { <<>>,
    [answer |-> <<>>],
    [sources |-> <<>>],
    [sources |-> <<Citation>>],
    [answer |-> Paris, sources |-> <<Citation>>] }

(* Variant: data.answer ?? "No response", which keeps an empty answer. *)
AnswerUnlessAbsent(data) ==
  IF "answer" \in DOMAIN data THEN data.answer ELSE NoResponse

(* data.answer || "No response": an absent answer is undefined, and *)
(* undefined and the empty string are both falsy.                    *)
AnswerOrDefault(data) ==
  IF "answer" \in DOMAIN data /\ data.answer # <<>>
    THEN data.answer
    ELSE NoResponse

(* data.sources || []: an array, even an empty one, is truthy. *)
SourcesOrDefault(data) ==
  IF "sources" \in DOMAIN data THEN data.sources ELSE <<>>

BotMessage(data) ==
  [role |-> "bot", text |-> AnswerOrDefault(data), sources |-> SourcesOrDefault(data)]

(* Variant: the text is sent under another key of the body. *)
RequestWrongField(msg) == [method |-> "POST", path |-> "/chat", body |-> [text |-> msg]]

(* The view of a message's citations: m.sources?.length ? tags : null, *)
(* each tag {s.source}#{s.chunk_id}.                                   *)
SourceTags(m) ==
  IF "sources" \in DOMAIN m /\ Len(m.sources) # 0
    THEN [i \in 1..Len(m.sources) |->
            <<m.sources[i].source, "#", m.sources[i].chunk_id>>]
    ELSE <<>>

Request(msg) == [method |-> "POST", path |-> "/chat", body |-> [message |-> msg]]

(* ------------------------------- state ------------------------------ *)
VARIABLES
  messages,   \* useState: the transcript
  input,      \* useState: the pending input
  loading,    \* useState: the busy flag
  calls,      \* the sendMessage invocations suspended at an await
  outbox,     \* the requests handed to fetch, in order
  last        \* the latest step: its kind and what it was given

vars == <<messages, input, loading, calls, outbox, last>>

State == [messages |-> messages, input |-> input, loading |-> loading]

(* The three kinds of state update the component makes. *)
SetMessages(m) == [set |-> "messages", msg |-> m]
SetInput(v) == [set |-> "input", val |-> v]
SetLoading(v) == [set |-> "loading", val |-> v]

(* Variant: setMessages([m]), which drops the earlier messages. *)
ApplyReplacing(st, u) ==
  CASE u.set = "messages" -> [st EXCEPT !.messages = <<u.msg>>]
    [] u.set = "input" -> [st EXCEPT !.input = u.val]
    [] u.set = "loading" -> [st EXCEPT !.loading = u.val]

(* setMessages((prev) => [...prev, m]), setInput(v), setLoading(v) *)
Apply(st, u) ==
  CASE u.set = "messages" -> [st EXCEPT !.messages = Append(st.messages, u.msg)]
    [] u.set = "input" -> [st EXCEPT !.input = u.val]
    [] u.set = "loading" -> [st EXCEPT !.loading = u.val]

RECURSIVE Flush(_, _)
Flush(st, us) ==
  IF us = <<>> THEN st ELSE Flush(Apply(st, Head(us)), Tail(us))

Render(st) ==
  /\ messages' = st.messages
  /\ input' = st.input
  /\ loading' = st.loading

Remove(s, i) == SubSeq(s, 1, i - 1) \o SubSeq(s, i + 1, Len(s))

Init ==
  /\ messages = <<Greeting>>
  /\ input = <<>>
  /\ loading = FALSE
  /\ calls = <<>>
  /\ outbox = <<>>
  /\ last = [op |-> "init"]

(* ----------------------------- handlers ----------------------------- *)
(* Variants of the guard: without the busy test, and with && for ||. *)
RejectsIgnoringLoading(msg) == msg = <<>>

RejectsOnlyBoth(msg) == msg = <<>> /\ loading

(* if (!msg || loading) return; *)
Rejects(msg) == msg = <<>> \/ loading

(* Variant: the user message is not appended before the request. *)
SubmitUpdatesNoUserMessage(msg) == <<SetInput(<<>>), SetLoading(TRUE)>>

(* Variant: the pending input is not cleared. *)
SubmitUpdatesKeepInput(msg) == <<SetMessages(UserMessage(msg)), SetLoading(TRUE)>>

(* What an accepted sendMessage does before its first await. *)
SubmitUpdates(msg) ==
  <<SetMessages(UserMessage(msg)), SetInput(<<>>), SetLoading(TRUE)>>

sendMessage ==
  LET msg == Trim(input) IN
    IF Rejects(msg)
      THEN /\ UNCHANGED <<messages, input, loading, calls, outbox>>
           /\ last' = [op |-> "rejected"]
      ELSE /\ Render(Flush(State, SubmitUpdates(msg)))
           /\ outbox' = Append(outbox, Request(msg))
           /\ calls' = Append(calls, [msg |-> msg, at |-> "fetch"])
           /\ last' = [op |-> "accepted"]

(* The model stops accepting after MaxSubmits requests. *)
WithinBound == Rejects(Trim(input)) \/ Len(outbox) < MaxSubmits

(* Variant: the key is not tested. *)
handleKeyDownAnyKey(key) == WithinBound /\ sendMessage

handleKeyDown(key) ==
  IF key = "Enter"
    THEN WithinBound /\ sendMessage
    ELSE /\ UNCHANGED <<messages, input, loading, calls, outbox>>
         /\ last' = [op |-> "key"]

KeyDown == \E key \in Keys : handleKeyDown(key)

(* <button onClick={sendMessage} disabled={loading}>: a disabled button *)
(* receives no click.                                                   *)
Click ==
  /\ ~loading
  /\ WithinBound
  /\ sendMessage

(* Variant: setInput(e.target.value.trim()) *)
updatePendingInputTrimmed(text) ==
  /\ Render(Flush(State, <<SetInput(Trim(text))>>))
  /\ UNCHANGED <<calls, outbox>>
  /\ last' = [op |-> "change"]

(* onChange={(e) => setInput(e.target.value)} *)
updatePendingInput(text) ==
  /\ Render(Flush(State, <<SetInput(text)>>))
  /\ UNCHANGED <<calls, outbox>>
  /\ last' = [op |-> "change"]

Change == \E text \in Texts : updatePendingInput(text)

(* --------------------- continuation of sendMessage ------------------- *)
(* await fetch(...) is fulfilled: the call goes on to await res.json(). *)
FetchFulfilled ==
  \E i \in 1..Len(calls) :
    /\ calls[i].at = "fetch"
    /\ calls' = [calls EXCEPT ![i].at = "json"]
    /\ UNCHANGED <<messages, input, loading, outbox>>
    /\ last' = [op |-> "response"]

(* Variant: the error is swallowed without a bot message. *)
FailureUpdatesSilent == <<SetLoading(FALSE)>>

(* Variant: loading is cleared in try only (no finally). *)
FailureUpdatesStuck == <<SetMessages(ErrorMessage)>>

(* catch, then finally *)
FailureUpdates == <<SetMessages(ErrorMessage), SetLoading(FALSE)>>

(* Variant: the pending input is cleared again when the reply arrives. *)
SuccessUpdatesClearInput(data) ==
  <<SetMessages(BotMessage(data)), SetInput(<<>>), SetLoading(FALSE)>>

(* Variant: loading is not cleared after a reply (no finally). *)
SuccessUpdatesNoFinally(data) == <<SetMessages(BotMessage(data))>>

(* the rest of try, then finally *)
SuccessUpdates(data) == <<SetMessages(BotMessage(data)), SetLoading(FALSE)>>

(* Call i runs from its await to its end. *)
Settle(i, updates) ==
  /\ calls' = Remove(calls, i)
  /\ Render(Flush(State, updates))
  /\ UNCHANGED outbox

(* await fetch(...) is rejected: a transport error. *)
FetchRejected ==
  \E i \in 1..Len(calls) :
    /\ calls[i].at = "fetch"
    /\ Settle(i, FailureUpdates)
    /\ last' = [op |-> "fetchRejected"]

(* await res.json() is rejected: the body is not JSON. *)
JsonRejected ==
  \E i \in 1..Len(calls) :
    /\ calls[i].at = "json"
    /\ Settle(i, FailureUpdates)
    /\ last' = [op |-> "jsonRejected"]

(* await res.json() is fulfilled with the decoded body. *)
JsonFulfilled ==
  \E i \in 1..Len(calls), data \in Responses :
    /\ calls[i].at = "json"
    /\ Settle(i, SuccessUpdates(data))
    /\ last' = [op |-> "fulfilled", data |-> data]

Settlement == FetchRejected \/ JsonRejected \/ JsonFulfilled

Next ==
  \/ KeyDown
  \/ Click
  \/ Change
  \/ FetchFulfilled
  \/ FetchRejected
  \/ JsonRejected
  \/ JsonFulfilled

Spec == Init /\ [][Next]_vars

(* sendMessage invoked twice by the handlers of one render, before React  *)
(* renders: two events dispatched in one task, such as an Enter key event *)
(* and a click made from a script.  Both invocations read the input and   *)
(* loading of that render (line 14, 15); their updates are rendered       *)
(* together afterwards, each setMessages appending to the previous one.   *)
SubmitTwice ==
  LET msg == Trim(input) IN
    IF Rejects(msg)
      THEN /\ UNCHANGED <<messages, input, loading, calls, outbox>>
           /\ last' = [op |-> "rejectedTwice"]
      ELSE /\ Len(outbox) + 2 <= MaxSubmits
           /\ Render(Flush(State, SubmitUpdates(msg) \o SubmitUpdates(msg)))
           /\ outbox' = outbox \o <<Request(msg), Request(msg)>>
           /\ calls' = calls \o <<[msg |-> msg, at |-> "fetch"],
                                  [msg |-> msg, at |-> "fetch"]>>
           /\ last' = [op |-> "acceptedTwice"]

NextBatched ==
  \/ Next
  \/ SubmitTwice

SpecBatched == Init /\ [][NextBatched]_vars

(* The promises of fetch and res.json() settle: the event loop runs every *)
(* continuation that is ready.                                             *)
FairSpec == Spec /\ WF_vars(FetchFulfilled \/ Settlement)

(* ============================ properties ============================ *)
(* A text with no character other than white space (the empty text too). *)
Blank(s) == \A i \in 1..Len(s) : s[i] \in WhiteSpace

(* No sendMessage invocation is between its submit and its reply. *)
Idle == ~loading /\ calls = <<>>

(* C1: in every reachable state at most one outbound request is           *)
(* outstanding, that is, at most one sendMessage invocation is suspended  *)
(* at one of its awaits.                                                  *)
C1_AtMostOneOutstanding == Len(calls) <= 1

(* A second request is outstanding, alone, and a submit was just refused. *)
C1_Witness == Len(calls) = 1 /\ Len(outbox) = 2 /\ last.op = "rejected"

(* C2: a submit while loading is true changes neither the transcript, nor *)
(* the pending input, nor the busy flag, and issues no request, whatever  *)
(* the pending text; and a request is issued only from the idle state.    *)
C2_BusySubmitRejected ==
  /\ [][(loading /\ sendMessage)
          => UNCHANGED <<messages, input, loading, calls, outbox>>]_vars
  /\ [][(Len(outbox') > Len(outbox) \/ Len(calls') > Len(calls)) => Idle]_vars

(* A submit of a non-blank text was refused because a request is out. *)
C2_Witness == loading /\ last.op = "rejected" /\ ~Blank(input)

(* C3: a submit of an empty or white-space-only pending text is a no-op   *)
(* in every state: transcript, pending input and busy flag are unchanged  *)
(* and no request is issued.                                              *)
C3_BlankSubmitNoOp ==
  [][(Blank(input) /\ sendMessage)
       => UNCHANGED <<messages, input, loading, calls, outbox>>]_vars

(* A submit of two spaces was refused while idle. *)
C3_Witness == Idle /\ last.op = "rejected" /\ input = <<" ", " ">>

(* The bot messages after the greeting. *)
BotReplies == Cardinality({i \in 2..Len(messages) : messages[i].role = "bot"})

(* C4: loading is true in exactly the states where a request is           *)
(* outstanding: from the accepted submit until the bot reply is appended  *)
(* (more requests issued than replies in the transcript, a call           *)
(* suspended), and false in every other state, the initial one included.  *)
C4_BusyIffOutstanding ==
  /\ loading <=> calls # <<>>
  /\ loading <=> Len(outbox) > BotReplies

(* The second reply has just been appended and loading is false again. *)
C4_Witness == ~loading /\ last.op = "fulfilled" /\ Len(outbox) = 2

(* t is s without its leading and trailing white space. *)
IsTrimOf(t, s) ==
  \E i \in 1..(Len(s) + 1), j \in 0..Len(s) :
    /\ i <= j + 1
    /\ t = SubSeq(s, i, j)
    /\ \A k \in 1..(i - 1) : s[k] \in WhiteSpace
    /\ \A k \in (j + 1)..Len(s) : s[k] \in WhiteSpace
    /\ t # <<>> => (t[1] \notin WhiteSpace /\ t[Len(t)] \notin WhiteSpace)

(* C5: a submit with a non-blank pending text and loading false appends   *)
(* exactly one message, of role "user" and with the trimmed pending text, *)
(* clears the pending input and sets loading to true.                     *)
C5_AcceptedSubmit ==
  [][(sendMessage /\ ~loading /\ ~Blank(input))
       => /\ Len(messages') = Len(messages) + 1
          /\ SubSeq(messages', 1, Len(messages)) = messages
          /\ messages'[Len(messages')].role = "user"
          /\ IsTrimOf(messages'[Len(messages')].text, input)
          /\ input' = <<>>
          /\ loading' = TRUE]_vars

(* A submit was just accepted: its user message is last, input is empty. *)
C5_Witness ==
  /\ last.op = "accepted"
  /\ messages[Len(messages)] = UserMessage(<<"a", "a">>)
  /\ input = <<>>
  /\ loading

IsPrefix(s, t) == Len(s) <= Len(t) /\ SubSeq(t, 1, Len(s)) = s

(* C6: the transcript starts as the single bot greeting, and every step   *)
(* leaves the previous transcript a prefix of the new one.                *)
C6_AppendOnly ==
  /\ Len(messages) = 1
  /\ messages[1].role = "bot"
  /\ messages[1].text = GreetingText
  /\ [][IsPrefix(messages, messages')]_vars

(* A key other than Enter was pressed with four messages in the transcript. *)
C6_Witness == Len(messages) = 4 /\ messages[1] = Greeting /\ last.op = "key"

(* C7: with no request outstanding and N requests issued and settled, the *)
(* transcript has 1 + 2N messages and each pair after the greeting is a   *)
(* user message followed by a bot message.                                *)
C7_LengthAndPairs ==
  Idle =>
    /\ Len(messages) = 1 + 2 * Len(outbox)
    /\ \A k \in 1..Len(outbox) :
         /\ messages[2 * k].role = "user"
         /\ messages[2 * k + 1].role = "bot"

(* Two round trips are complete. *)
C7_Witness == Idle /\ Len(outbox) = 2 /\ Len(messages) = 5

(* C8 as stated: after a decoded response the one bot message appended    *)
(* has the answer as text whenever the answer field is present, whatever  *)
(* string it is, and "No response" when it is absent; its sources are the *)
(* response's when present and empty when absent.                         *)
C8_AnyPresentAnswerShown ==
  [][last'.op = "fulfilled"
       => LET d == last'.data
              m == messages'[Len(messages')]
          IN /\ Len(messages') = Len(messages) + 1
             /\ IsPrefix(messages, messages')
             /\ m.role = "bot"
             /\ m.text = IF "answer" \in DOMAIN d THEN d.answer ELSE NoResponse
             /\ m.sources = IF "sources" \in DOMAIN d THEN d.sources ELSE <<>>]_vars

(* C8 amended: the text is the answer when the answer field is present    *)
(* and not the empty string, and "No response" when the field is absent   *)
(* or holds the empty string; the sources are as stated.                  *)
C8_NonEmptyAnswerShown ==
  [][last'.op = "fulfilled"
       => LET d == last'.data
              m == messages'[Len(messages')]
          IN /\ Len(messages') = Len(messages) + 1
             /\ IsPrefix(messages, messages')
             /\ m.role = "bot"
             /\ m.text = IF "answer" \in DOMAIN d /\ Len(d.answer) > 0
                           THEN d.answer
                           ELSE NoResponse
             /\ m.sources = IF "sources" \in DOMAIN d THEN d.sources ELSE <<>>]_vars

(* The response {"answer":"Paris","sources":[{doc1, 3}]} has been folded *)
(* into the transcript.                                                   *)
C8_Witness ==
  /\ last.op = "fulfilled"
  /\ last.data = [answer |-> Paris, sources |-> <<Citation>>]
  /\ messages[Len(messages)].text = Paris
  /\ messages[Len(messages)].sources = <<Citation>>

(* C9: when the outstanding request fails, at fetch or at res.json(),     *)
(* exactly one bot message with the fixed error text is appended, the     *)
(* user message that triggered it and all earlier messages stay, loading  *)
(* returns to false and the session is idle again.                        *)
C9_FailureRecovered ==
  [][last'.op \in {"fetchRejected", "jsonRejected"}
       => LET m == messages'[Len(messages')]
          IN /\ Len(messages') = Len(messages) + 1
             /\ IsPrefix(messages, messages')
             /\ messages[Len(messages)].role = "user"
             /\ m.role = "bot"
             /\ m.text = ErrorText
             /\ ~loading'
             /\ calls' = <<>>]_vars

(* The body of the response could not be decoded and the error message *)
(* follows the user message.                                            *)
C9_Witness ==
  /\ last.op = "jsonRejected"
  /\ ~loading
  /\ messages[Len(messages)].text = ErrorText
  /\ messages[Len(messages) - 1].role = "user"

(* C10: under fair settlement of requests, loading true leads to loading  *)
(* false; every settlement, a failure included, ends in the idle state;   *)
(* and in the idle state a submit of a non-blank text is accepted.        *)
C10_BackToIdle ==
  /\ loading ~> ~loading
  /\ [][last'.op \in {"fetchRejected", "jsonRejected", "fulfilled"} => Idle']_vars
  /\ [][(Idle /\ sendMessage /\ ~Blank(input))
          => /\ last'.op = "accepted"
             /\ Len(outbox') = Len(outbox) + 1
             /\ loading']_vars

(* A submit was accepted after a failed round trip. *)
C10_Witness ==
  /\ last.op = "accepted"
  /\ Len(outbox) = 2
  /\ messages[3].text = ErrorText

UserMessages == {i \in 1..Len(messages) : messages[i].role = "user"}

(* C12: in every reachable state as many requests have been issued as     *)
(* there are user messages in the transcript (one per accepted submit,     *)
(* none for a retry), and the k-th request is a POST whose body is         *)
(* {message: text of the k-th user message}, a non-empty trimmed text.     *)
C12_OneRequestPerSubmit ==
  /\ Len(outbox) = Cardinality(UserMessages)
  /\ \A k \in 1..Len(outbox) :
       /\ 2 * k \in UserMessages
       /\ outbox[k].method = "POST"
       /\ outbox[k].body = [message |-> messages[2 * k].text]
       /\ messages[2 * k].text # <<>>
       /\ IsTrimOf(messages[2 * k].text, messages[2 * k].text)

(* The first request failed and was not sent again: the second request is *)
(* the one of the second user message.                                     *)
C12_Witness ==
  /\ Len(outbox) = 2
  /\ messages[3].text = ErrorText
  /\ outbox[1].body.message = <<"a">>
  /\ outbox[2].body.message = <<"a", "a">>

(* C13: a key event with Enter is a step of sendMessage on the current    *)
(* state and every step of sendMessage is one an Enter key event makes    *)
(* (same transcript, pending input, busy flag and request); a key event   *)
(* with any other key changes none of them.                               *)
C13_EnterIsSubmit ==
  [][/\ handleKeyDown("Enter") <=> (WithinBound /\ sendMessage)
     /\ \A key \in Keys \ {"Enter"} :
          handleKeyDown(key)
            => UNCHANGED <<messages, input, loading, calls, outbox>>]_vars

(* Another key was pressed while idle with a text to send: nothing sent. *)
C13_Witness == last.op = "key" /\ Idle /\ ~Blank(input) /\ Len(outbox) = 0

(* C14: updatePendingInput(text) makes the pending input exactly text, in *)
(* every state, and changes neither the transcript nor the busy flag, and *)
(* issues no request.                                                     *)
C14_InputVerbatim ==
  [][\A text \in Texts :
       updatePendingInput(text)
         => /\ input' = text
            /\ UNCHANGED <<messages, loading, calls, outbox>>]_vars

(* A text with a leading space was typed while a request is outstanding. *)
C14_Witness == loading /\ last.op = "change" /\ input = <<" ", "a">>

(* C15: while loading is true, a step in which no awaited promise settles *)
(* (every suspended call stays where it is) leaves loading true and the   *)
(* transcript unchanged and issues no request: nothing but the settlement *)
(* of the request ends the busy state.                                    *)
C15_NoTimeout ==
  [][(loading /\ IsPrefix(calls, calls'))
       => /\ loading'
          /\ messages' = messages
          /\ outbox' = outbox]_vars

(* Keys are pressed while the first request hangs at fetch. *)
C15_Witness ==
  /\ loading
  /\ last.op = "key"
  /\ Len(calls) = 1
  /\ calls[1].at = "fetch"
  /\ Len(messages) = 2

C17_RolesAlternate ==
  /\ \A i \in 1..Len(messages) :
       messages[i].role = IF i % 2 = 1 THEN "bot" ELSE "user"
  /\ loading <=> messages[Len(messages)].role = "user"
  /\ loading <=> Len(messages) % 2 = 0

(* The second user message is last and its request awaits the body. *)
C17_Witness ==
  /\ Len(messages) = 4
  /\ loading
  /\ messages[4].role = "user"
  /\ calls[1].at = "json"

(* C18: the step that settles a request, by a reply or by a failure,      *)
(* leaves the pending input as it was.                                    *)
C18_SettlementKeepsInput ==
  [][last'.op \in {"fetchRejected", "jsonRejected", "fulfilled"}
       => input' = input]_vars

(* A text typed while the request was outstanding is still there after *)
(* the reply.                                                           *)
C18_Witness == last.op = "fulfilled" /\ ~loading /\ input = <<"a", " ">>

(* C19: when two submit triggers are handled by the handlers of one       *)
(* render, before the captured loading and input reflect the first, only  *)
(* one user message is appended and only one request is issued.           *)
C19_OneSubmitPerRender ==
  [][last'.op \in {"acceptedTwice", "rejectedTwice"}
       => /\ Len(messages') <= Len(messages) + 1
          /\ Len(outbox') <= Len(outbox) + 1
          /\ Len(calls') <= 1]_vars

====
